---- MODULE Spec2Model ----
(***************************************************************************)
(* Model of the boundary-tag allocator of mem.c: Mem_Init, Mem_Alloc,      *)
(* Mem_Free and Mem_Dump acting on one mmap'd region.  The region is an    *)
(* array of 32-bit words, addressed in bytes exactly as the C pointer      *)
(* arithmetic addresses it (block_tag* + k advances 4*k bytes).            *)
(***************************************************************************)
EXTENDS Integers, Sequences, FiniteSets, TLC

\* ---------------------------------------------------------------- bounds
\* words per page of the (scaled down) platform
PageWords == 8
\* largest region Mem_Init is asked for, in pages
MaxPages == 2
\* number of calls made by the client program
MaxOps == 7
\* words of address space modelled on each side of the region
Guard == 8

\* ------------------------------------------------------ program constants
header_size == 4
is_busy == 1
prev_block_allocated == 2

\* getpagesize()
PageSize == 4 * PageWords

\* address returned by mmap: page aligned, not NULL
Base == 4 * PageSize

NULL == 0

\* contents of mapped memory that lies outside the region
Garbage == {0, 1}

\* what the platform does with an access outside the region or off alignment:
\* trap (SIGSEGV / SIGBUS), or perform it on neighbouring mapped memory
Platforms ==
  {[trap |-> TRUE, g |-> 0]} \cup {[trap |-> FALSE, g |-> v] : v \in Garbage}

\* arguments the client passes
RegionSizes == {0, PageSize, (MaxPages - 1) * PageSize + 1}
AllocSizes == {0, 3, 12, 20}

VARIABLES
  plat,            \* the platform the program runs on
  mem,             \* words of the mapping, indexed by word offset from first_block
  first_block,     \* global first_block (an address, NULL before Mem_Init)
  total_mem_size,  \* global total_mem_size
  allocated_once,  \* static of Mem_Init
  pcstate,         \* "run", "fault" (killed by a signal) or "hang" (loop never ends)
  last,            \* the last call: [op, arg, ret, done]
  live,            \* payload references returned by Mem_Alloc and not freed since
  given,           \* every reference Mem_Alloc ever returned
  clean,           \* the client has passed Mem_Free live references only
  nops             \* calls made so far

vars == <<plat, mem, first_block, total_mem_size, allocated_once, pcstate,
          last, live, given, clean, nops>>

\* ------------------------------------------------------------ int helpers
\* An int is a 32-bit two's complement word, held as its signed value.

\* x & 1
Odd(x) == x % 2 = 1

\* C integer division, truncating toward zero
CDiv(a, b) == IF a >= 0 THEN a \div b ELSE -((-a) \div b)

\* 256^k for a byte count k of 1..3
Pow256(k) == CASE k = 1 -> 256 [] k = 2 -> 65536 [] OTHER -> 16777216

\* the low k bytes of x, unsigned
LowBytes(x, k) == x % Pow256(k)

\* the bytes of x above its low k bytes, as a signed number
HighBytes(x, k) == (x - LowBytes(x, k)) \div Pow256(k)

\* the number whose k-byte two's complement pattern is u
Signed(u, k) == IF 2 * u >= Pow256(k) THEN u - Pow256(k) ELSE u

\* ------------------------------------------------------------ the memory
NWords == total_mem_size \div 4

\* word index and byte offset of an address
WordOf(a) == (a - first_block) \div 4
ByteOf(a) == (a - first_block) % 4

InRegion(a) == first_block <= a /\ a + 4 <= first_block + total_mem_size

\* can the platform perform a 4-byte access at address a
Acc(a) ==
  IF plat.trap
    THEN ByteOf(a) = 0 /\ InRegion(a)
    ELSE /\ WordOf(a) >= -Guard
         /\ WordOf(a) + (IF ByteOf(a) = 0 THEN 0 ELSE 1) <= NWords + Guard - 1

\* little-endian load of an int at address a: at byte offset k of word i it
\* is made of the top 4-k bytes of word i and the low k bytes of word i+1
Load(m, a) ==
  LET i == WordOf(a)
      k == ByteOf(a)
  IN IF k = 0 THEN m[i]
     ELSE Signed(LowBytes(m[i + 1], k), k) * Pow256(4 - k)
          + LowBytes(HighBytes(m[i], k), 4 - k)

\* little-endian store of an int at address a
Store(m, a, v) ==
  LET i == WordOf(a)
      k == ByteOf(a)
  IN IF k = 0 THEN [m EXCEPT ![i] = v]
     ELSE [m EXCEPT
             ![i] = Signed(LowBytes(v, 4 - k), 4 - k) * Pow256(k) + LowBytes(m[i], k),
             ![i + 1] = (m[i + 1] - LowBytes(m[i + 1], k))
                        + LowBytes(HighBytes(v, 4 - k), k)]

\* The frame of a running call: the memory so far, whether a signal has killed
\* the process, the value last read (v), and the call's local variables.

\* p->size_status as an rvalue: the value lands in v
Rd(f, a) ==
  IF f.dead THEN f
  ELSE IF Acc(a) THEN [f EXCEPT !.v = Load(f.mem, a)]
  ELSE [f EXCEPT !.dead = TRUE]

\* p->size_status = val
Wr(f, a, val) ==
  IF f.dead THEN f
  ELSE IF Acc(a) THEN [f EXCEPT !.mem = Store(f.mem, a, val)]
  ELSE [f EXCEPT !.dead = TRUE]

\* block_tag* + k
Ptr(p, k) == p + 4 * k

Init ==
  /\ plat \in Platforms
  /\ mem = [i \in {} |-> 0]
  /\ first_block = NULL
  /\ total_mem_size = 0
  /\ allocated_once = 0
  /\ pcstate = "run"
  /\ last = [op |-> "none", arg |-> 0, ret |-> 0, done |-> TRUE]
  /\ live = {}
  /\ given = {}
  /\ clean = TRUE
  /\ nops = 0

\* the region as mmap of /dev/zero hands it over, header and footer written
FreshRegion(alloc_size) ==
  [i \in (-Guard) .. (alloc_size \div 4 + Guard - 1) |->
     IF i < 0 \/ i >= alloc_size \div 4 THEN plat.g
     ELSE IF i = 0 THEN alloc_size + 2
     ELSE IF i = alloc_size \div 4 - 1 THEN alloc_size
     ELSE 0]

\* a call can be made: the process is alive and is not inside a call
CanCall == pcstate = "run"

\* alloc_size without the padding of lines 273-276
AllocSize_NoPad(sizeOfRegion) == sizeOfRegion

\* sizeOfRegion rounded up to a multiple of the page size
AllocSize(sizeOfRegion) ==
  sizeOfRegion + ((PageSize - (sizeOfRegion % PageSize)) % PageSize)

\* Mem_Init without the test of allocated_once at line 260: a second call
\* maps a new region over the first
Mem_Init_NoOnceTest(sizeOfRegion, env) ==
  /\ CanCall
  /\ nops' = nops + 1
  /\ UNCHANGED <<plat, pcstate, live, given, clean>>
  /\ IF sizeOfRegion <= 0 \/ env # "ok"
       THEN /\ last' = [op |-> "init", arg |-> sizeOfRegion, ret |-> -1, done |-> TRUE]
            /\ UNCHANGED <<mem, first_block, total_mem_size, allocated_once>>
     ELSE /\ allocated_once' = 1
          /\ total_mem_size' = AllocSize(sizeOfRegion)
          /\ first_block' = Base
          /\ mem' = FreshRegion(AllocSize(sizeOfRegion))
          /\ last' = [op |-> "init", arg |-> sizeOfRegion, ret |-> 0, done |-> TRUE]

\* Mem_Init(sizeOfRegion); env is what open and mmap do
Mem_Init(sizeOfRegion, env) ==
  /\ CanCall
  /\ nops' = nops + 1
  /\ UNCHANGED <<plat, pcstate, live, given, clean>>
  /\ IF allocated_once # 0 \/ sizeOfRegion <= 0 \/ env = "open_fails"
       THEN /\ last' = [op |-> "init", arg |-> sizeOfRegion, ret |-> -1, done |-> TRUE]
            /\ UNCHANGED <<mem, first_block, total_mem_size, allocated_once>>
     ELSE IF env = "mmap_fails"
       THEN /\ allocated_once' = 0
            /\ last' = [op |-> "init", arg |-> sizeOfRegion, ret |-> -1, done |-> TRUE]
            /\ UNCHANGED <<mem, first_block, total_mem_size>>
     ELSE /\ allocated_once' = 1
          /\ total_mem_size' = AllocSize(sizeOfRegion)
          /\ first_block' = Base
          /\ mem' = FreshRegion(AllocSize(sizeOfRegion))
          /\ last' = [op |-> "init", arg |-> sizeOfRegion, ret |-> 0, done |-> TRUE]

\* how a call ends: it returns, a signal kills it, or it loops for ever
Outcome(f) == IF f.dead THEN "fault" ELSE IF f.hang THEN "hang" ELSE "run"

\* ---------------------------------------------------------------- Mem_Alloc
\* size rounded up to a multiple of 4
RoundUp4(size) ==
  IF size % 4 = 1 THEN size + 3
  ELSE IF size % 4 = 2 THEN size + 2
  ELSE IF size % 4 = 3 THEN size + 1
  ELSE size

\* the locals of Mem_Alloc once size holds the rounded size plus the header
AllocFrame(m, size) ==
  [mem |-> m, dead |-> FALSE, hang |-> FALSE, v |-> 0, size |-> size,
   current |-> first_block, best_slot |-> NULL, preSplitSize |-> 0,
   footer |-> NULL, ret |-> NULL]

\* lines 111-122, g.v holding current->size_status
ScanBody(g) ==
  IF g.dead THEN g
  ELSE IF Odd(g.v) THEN [g EXCEPT !.current = g.current + (g.v - 3)]
  ELSE [g EXCEPT
          !.current = g.current + (g.v - 2),
          !.best_slot =
             IF /\ g.size <= g.v
                /\ (g.best_slot = NULL \/ g.v < Rd(g, g.best_slot).v)
               THEN g.current ELSE g.best_slot]

\* the while loop of lines 105-123.  The loop changes no memory, so a cursor
\* position seen twice is seen for ever.
RECURSIVE Scan(_, _)
Scan(f, seen) ==
  IF f.dead \/ ~(f.current < first_block + total_mem_size) THEN f
  ELSE IF f.current \in seen THEN [f EXCEPT !.hang = TRUE]
  ELSE Scan(ScanBody(Rd(f, f.current)), seen \cup {f.current})

\* line 131, g.v holding best_slot->size_status
SetPreSplitSize(g) == [g EXCEPT !.preSplitSize = g.v - prev_block_allocated]

\* line 134
NewBlock(f) == Ptr(f.best_slot, header_size)

\* line 137
WriteNewBlock(f) == Wr(f, NewBlock(f), f.size + is_busy + prev_block_allocated)

\* line 138, g.v holding newBlock->size_status
WriteHeader(g) == Wr(g, Ptr(NewBlock(g), -header_size), g.v)

\* line 141
SplitBlock(f) == Ptr(f.best_slot, CDiv(f.size, 4))

\* line 142
WriteSplit(f) ==
  Wr(f, SplitBlock(f), (f.preSplitSize - f.size) + prev_block_allocated)

\* line 145, g.v holding splitBlock->size_status
SetFooter(g) ==
  [g EXCEPT !.footer =
     Ptr(SplitBlock(g), CDiv(g.v - 2, 4) - CDiv(prev_block_allocated, 4) - 1)]

\* line 146
WriteFooter(f) ==
  Wr(f, f.footer, (f.preSplitSize - f.size) + prev_block_allocated)

\* lines 131, 137, 138, 142, 145 and 146
Line131(f) == SetPreSplitSize(Rd(f, f.best_slot))
Line137(f) == WriteNewBlock(f)
Line138(f) == WriteHeader(Rd(f, NewBlock(f)))
Line142(f) == WriteSplit(f)
Line145(f) == SetFooter(Rd(f, SplitBlock(f)))
Line146(f) == WriteFooter(f)

\* lines 130-146, statement by statement
CarveSteps(f) == Line146(Line145(Line142(Line138(Line137(Line131(f))))))

\* lines 125-148
Carve(f) ==
  IF f.dead \/ f.hang \/ f.best_slot = NULL THEN f
  ELSE [CarveSteps(f) EXCEPT !.ret = NewBlock(f)]

\* the whole call
AllocCall(m, size) ==
  IF size <= 0 THEN AllocFrame(m, size)
  ELSE Carve(Scan(AllocFrame(m, RoundUp4(size) + header_size), {}))

\* what the call leaves behind
AllocDone(c, size) ==
  /\ mem' = c.mem
  /\ pcstate' = Outcome(c)
  /\ last' = [op |-> "alloc", arg |-> size,
              ret |-> IF Outcome(c) = "run" THEN c.ret ELSE NULL,
              done |-> Outcome(c) = "run"]
  /\ live' = IF Outcome(c) = "run" /\ c.ret # NULL
               THEN {l \in live : l.ref # c.ret} \cup {[ref |-> c.ret, n |-> size]}
               ELSE live
  /\ given' = IF Outcome(c) = "run" /\ c.ret # NULL THEN given \cup {c.ret} ELSE given

Mem_Alloc(size) ==
  /\ CanCall
  /\ nops' = nops + 1
  /\ AllocDone(AllocCall(mem, size), size)
  /\ UNCHANGED <<plat, first_block, total_mem_size, allocated_once, clean>>

\* ----------------------------------------------------------------- Mem_Free
\* the locals of Mem_Free at line 184; b holds the value of the last condition
FreeFrame(m, ptr) ==
  [mem |-> m, dead |-> FALSE, hang |-> FALSE, v |-> 0,
   coalescedBlock |-> Ptr(ptr, -4), footer |-> NULL, p |-> NULL,
   temp |-> 0, temp2 |-> 0, b |-> FALSE, ret |-> 0]

\* coalescedBlock->size_status
Hd(f) == Rd(f, f.coalescedBlock)

\* (coalescedBlock + (coalescedBlock->size_status - adj)/4)->size_status,
\* g.v holding coalescedBlock->size_status
Nb(g, adj) == Rd(g, Ptr(g.coalescedBlock, CDiv(g.v - adj, 4)))

\* (coalescedBlock - 4)->size_status
Pv(f) == Rd(f, Ptr(f.coalescedBlock, -4))

\* line 187, g.v holding coalescedBlock->size_status
MarkFree(g) == Wr(g, g.coalescedBlock, g.v - 1)

\* the second operand of a condition, g.v holding coalescedBlock->size_status
Mod4NotZero(g) == [g EXCEPT !.b = g.v % 4 # 0]
Mod4Zero(g) == [g EXCEPT !.b = g.v % 4 = 0]

\* line 190, g.v holding the first operand's size_status
Case1Second(g) == IF Odd(g.v) THEN Mod4NotZero(Hd(g)) ELSE [g EXCEPT !.b = FALSE]
Case1Cond(f) == Case1Second(Nb(Hd(f), 2))

\* line 193 and line 221, g.v holding coalescedBlock->size_status
WriteFooterBack4(g) == Wr(g, Ptr(g.coalescedBlock, CDiv(g.v - 2, 4) - 4), g.v)

\* line 196, g.v holding coalescedBlock->size_status, then the next block's
SetNext(g) == [g EXCEPT !.p = Ptr(g.coalescedBlock, CDiv(g.v - 2, 4))]
ClearPrevBit(g) == Wr(g, g.p, g.v - 2)
ReadP(g) == Rd(g, g.p)

\* lines 193 and 196
Line193(f) == WriteFooterBack4(Hd(f))
Line196(f) == ClearPrevBit(ReadP(SetNext(Hd(f))))

\* lines 192-196
Case1Body(f) == Line196(Line193(f))

\* line 200
Case2Second(g) == IF Odd(g.v) THEN Mod4Zero(Hd(g)) ELSE [g EXCEPT !.b = FALSE]
Case2Cond(f) == Case2Second(Nb(Hd(f), 0))

\* line 203, g.v holding coalescedBlock->size_status
SetFooterEnd(g) == [g EXCEPT !.footer = Ptr(g.coalescedBlock, CDiv(g.v, 4) - 1)]

\* line 204: g.v holds coalescedBlock->size_status, then (coalescedBlock - 4)'s
KeepTemp(g) == [g EXCEPT !.temp = g.v]
WriteFooterSum(g) == Wr(g, g.footer, g.temp + g.v)

\* line 207, g.v holding (coalescedBlock - 4)->size_status
MoveBack(g) ==
  [g EXCEPT !.coalescedBlock = Ptr(g.coalescedBlock, -CDiv(g.v, 4))]

\* line 208, g.v holding footer->size_status
WriteHeaderFromV(g) == Wr(g, g.coalescedBlock, g.v)

\* line 211, g.v holding (footer + 1)->size_status
ClearPrevBitAfterFooter(g) == Wr(g, Ptr(g.footer, 1), g.v - 2)
ReadAfterFooter(f) == Rd(f, Ptr(f.footer, 1))
ReadFooter(f) == Rd(f, f.footer)

\* lines 203, 204, 207, 208 and 211
Line203(f) == SetFooterEnd(Hd(f))
Line204(f) == WriteFooterSum(Pv(KeepTemp(Hd(f))))
Line207(f) == MoveBack(Pv(f))
Line208(f) == WriteHeaderFromV(ReadFooter(f))
Line211(f) == ClearPrevBitAfterFooter(ReadAfterFooter(f))

\* lines 202-211
Case2Body(f) == Line211(Line208(Line207(Line204(Line203(f)))))

\* line 215
Case3Second(g) == IF g.v % 2 = 0 THEN Mod4NotZero(Hd(g)) ELSE [g EXCEPT !.b = FALSE]
Case3Cond(f) == Case3Second(Nb(Hd(f), 2))

\* line 218: g.temp holds coalescedBlock->size_status, g.v the next block's
WriteHeaderSum(g) == Wr(g, g.coalescedBlock, g.temp + g.v - 2)

\* lines 218 and 221
Line218(f) == WriteHeaderSum(Nb(KeepTemp(Hd(f)), 2))
Line221(f) == WriteFooterBack4(Hd(f))

\* lines 217-221
Case3Body(f) == Line221(Line218(f))

\* line 225
Case4Second(g) == IF g.v % 2 = 0 THEN Mod4Zero(Hd(g)) ELSE [g EXCEPT !.b = FALSE]
Case4Cond(f) == Case4Second(Nb(Hd(f), 0))

\* line 230, g.v holding the next block's size_status
WriteHeaderNext(g) == Wr(g, g.coalescedBlock, g.v - 2)

\* line 233, g.v holding coalescedBlock->size_status
SetFooterBack4(g) == [g EXCEPT !.footer = Ptr(g.coalescedBlock, CDiv(g.v, 4) - 4)]

\* line 235, g.v holding coalescedBlock->size_status
KeepTemp2(g) == [g EXCEPT !.temp2 = g.v]

\* line 238, g.v holding (coalescedBlock - 4)->size_status
MoveBack2(g) ==
  [g EXCEPT !.coalescedBlock = Ptr(g.coalescedBlock, -CDiv(g.v - 2, 4))]

\* line 239, g.v holding coalescedBlock->size_status
WriteHeaderTotal(g) == Wr(g, g.coalescedBlock, g.v + g.temp + g.temp2)

\* line 240, g.v holding coalescedBlock->size_status
WriteFooterFromV(g) == Wr(g, g.footer, g.v)

\* lines 228, 230, 233, 235, 238, 239 and 240
Line228(f) == KeepTemp(Hd(f))
Line230(f) == WriteHeaderNext(Nb(Hd(f), 0))
Line233(f) == SetFooterBack4(Hd(f))
Line235(f) == KeepTemp2(Hd(f))
Line238(f) == MoveBack2(Pv(f))
Line239(f) == WriteHeaderTotal(Hd(f))
Line240(f) == WriteFooterFromV(Hd(f))

\* lines 227-240
Case4Body(f) ==
  Line240(Line239(Line238(Line235(Line233(Line230(Line228(f)))))))

\* the if / else-if chain of lines 190-241, c being the frame after a condition
Branch4(c) == IF c.dead THEN c ELSE IF c.b THEN Case4Body(c) ELSE c
Branch3(c) ==
  IF c.dead THEN c ELSE IF c.b THEN Case3Body(c) ELSE Branch4(Case4Cond(c))
Branch2(c) ==
  IF c.dead THEN c ELSE IF c.b THEN Case2Body(c) ELSE Branch3(Case3Cond(c))
Branch1(c) ==
  IF c.dead THEN c ELSE IF c.b THEN Case1Body(c) ELSE Branch2(Case2Cond(c))

\* lines 180-243: mark the block free, then the first case whose condition holds
Coalesce(f) == Branch1(Case1Cond(MarkFree(Hd(f))))

\* the whole call
FreeCall(m, ptr) ==
  IF ptr = NULL THEN [FreeFrame(m, ptr) EXCEPT !.ret = -1]
  ELSE IF ptr < first_block \/ ptr > first_block + total_mem_size
    THEN [FreeFrame(m, ptr) EXCEPT !.ret = -1]
  ELSE IF ptr % 4 # 0 THEN [FreeFrame(m, ptr) EXCEPT !.ret = -1]
  ELSE Coalesce(FreeFrame(m, ptr))

\* pointers a client may hand to Mem_Free that Mem_Alloc never returned
StrayPtrs ==
  {NULL, first_block + 1, first_block,
   first_block + total_mem_size, first_block + total_mem_size + 4}

\* what the call leaves behind
FreeDone(c, ptr) ==
  /\ mem' = c.mem
  /\ pcstate' = Outcome(c)
  /\ last' = [op |-> "free", arg |-> ptr,
              ret |-> IF c.dead THEN -1 ELSE c.ret, done |-> ~c.dead]
  /\ live' = IF ~c.dead /\ c.ret = 0 THEN {l \in live : l.ref # ptr} ELSE live

Mem_Free(ptr) ==
  /\ CanCall
  /\ nops' = nops + 1
  /\ FreeDone(FreeCall(mem, ptr), ptr)
  /\ clean' = (clean /\ \E l \in live : l.ref = ptr)
  /\ UNCHANGED <<plat, first_block, total_mem_size, allocated_once, given>>

\* ----------------------------------------------------------------- Mem_Dump
\* the locals of Mem_Dump at line 340; blocks is what has been printed
DumpFrame(m) ==
  [mem |-> m, dead |-> FALSE, hang |-> FALSE, v |-> 0,
   current |-> first_block, blocks |-> <<>>, busy_size |-> 0, free_size |-> 0]

\* t_size with the status bits taken off, lines 344-360
SizeOf(st) ==
  (IF Odd(st) THEN st - 1 ELSE st)
  - (IF ((IF Odd(st) THEN st - 1 ELSE st) \div 2) % 2 = 1 THEN 2 ELSE 0)

\* t_size & 2 at line 357
PrevBusy(st) == ((IF Odd(st) THEN st - 1 ELSE st) \div 2) % 2 = 1

\* lines 342-372, g.v holding current->size_status
DumpBody(g) ==
  IF g.dead THEN g
  ELSE [g EXCEPT
          !.blocks = Append(g.blocks,
                            [begin |-> g.current, size |-> SizeOf(g.v),
                             busy |-> Odd(g.v), prev_busy |-> PrevBusy(g.v)]),
          !.busy_size = IF Odd(g.v) THEN g.busy_size + SizeOf(g.v) ELSE g.busy_size,
          !.free_size = IF Odd(g.v) THEN g.free_size ELSE g.free_size + SizeOf(g.v),
          !.current = g.current + SizeOf(g.v)]

\* the while loop of lines 340-373
RECURSIVE Walk(_, _)
Walk(f, seen) ==
  IF f.dead \/ ~(f.current < first_block + total_mem_size) THEN f
  ELSE IF f.current \in seen THEN [f EXCEPT !.hang = TRUE]
  ELSE Walk(DumpBody(Rd(f, f.current)), seen \cup {f.current})

\* the whole call on memory m
DumpCall(m) == Walk(DumpFrame(m), {})

\* what the call leaves behind: the total it prints
DumpDone(d) ==
  /\ pcstate' = Outcome(d)
  /\ last' = [op |-> "dump", arg |-> 0,
              ret |-> IF Outcome(d) = "run" THEN d.busy_size + d.free_size ELSE 0,
              done |-> Outcome(d) = "run"]

Mem_Dump ==
  /\ CanCall
  /\ nops' = nops + 1
  /\ DumpDone(DumpCall(mem))
  /\ UNCHANGED <<plat, mem, first_block, total_mem_size, allocated_once, live, given,
                 clean>>

\* the client program: up to MaxOps calls, in any order, with any arguments
Next ==
  \/ \E sz \in RegionSizes, env \in {"ok", "open_fails", "mmap_fails"} :
       nops < MaxOps /\ Mem_Init(sz, env)
  \/ \E n \in AllocSizes : nops < MaxOps /\ Mem_Alloc(n)
  \/ \E ptr \in given \cup StrayPtrs : nops < MaxOps /\ Mem_Free(ptr)
  \/ nops < MaxOps /\ Mem_Dump

Spec == Init /\ [][Next]_vars

\* a client program that allocates three blocks of one size from a fresh
\* region and frees the second, then the first, then the third
ChainSizes == 1 .. (PageSize - header_size)

\* the k-th lowest of the references handed out
RefsBelow(r) == {x \in given : x < r}
NthRef(k) == CHOOSE r \in given : Cardinality(RefsBelow(r)) = k - 1

ChainNext ==
  \/ \E sz \in RegionSizes \ {0} : nops = 0 /\ Mem_Init(sz, "ok")
  \/ \E n \in ChainSizes :
       /\ \/ nops = 1
          \/ nops \in {2, 3} /\ last.ret # NULL /\ n = last.arg
       /\ Mem_Alloc(n)
  \/ \E ptr \in given :
       /\ Cardinality(given) = 3
       /\ \/ nops = 4 /\ last.ret # NULL /\ ptr = NthRef(2)
          \/ nops = 5 /\ ptr = NthRef(1)
          \/ nops = 6 /\ ptr = NthRef(3)
       /\ Mem_Free(ptr)

SpecChain == Init /\ [][ChainNext]_vars

\* ------------------------------------------------------------------ claims
\* The block list of the current state, as Mem_Dump walks it.
BlockList == DumpCall(mem)

\* Mem_Init has succeeded and the process is between two calls
Quiescent == allocated_once = 1 /\ pcstate = "run"

\* the walk ends, and ends exactly at the end of the region, over blocks of
\* positive size
Partitions(d) ==
  /\ ~d.hang /\ ~d.dead
  /\ d.current = first_block + total_mem_size
  /\ \A i \in 1 .. Len(d.blocks) : d.blocks[i].size > 0
  /\ d.busy_size + d.free_size = total_mem_size

\* the step is one call of the named operation
IsCall(op) == nops' = nops + 1 /\ last'.op = op

\* every access outside the region or off a word boundary ends the process, so
\* a call that has returned has run without undefined behaviour
Strict == plat.trap

\* no call has written outside the region
GuardClean(m) == \A i \in DOMAIN m : (i < 0 \/ i >= NWords) => m[i] = plat.g

\* need = roundup4(n) + 4
Need(n) == RoundUp4(n) + header_size

\* C1 (Conservation): between calls, the blocks found by walking from the
\* region's start partition the region: the walk ends exactly at the end and
\* the sizes add up to total_mem_size.  Stated for clients that hand Mem_Free
\* live references only and for calls that ran without undefined behaviour,
\* the case most favourable to the claim.
C1_Conservation == (Quiescent /\ clean /\ Strict) => Partitions(BlockList)

\* C2 (No-adjacent-free): after a Mem_Free that returned 0, no two consecutive
\* blocks of the block list are both free.  Stated for clients that free live
\* references only and for calls that ran without undefined behaviour.
C2_NoAdjacentFree ==
  (Quiescent /\ clean /\ Strict /\ last.op = "free" /\ last.ret = 0) =>
    LET bl == BlockList.blocks
    IN \A i \in 1 .. Len(bl) - 1 : bl[i].busy \/ bl[i + 1].busy

\* C3 (payload reference): a successful Mem_Alloc(n) returns header + 4 of a
\* busy block of the block list, and [ref, ref + roundup4(n)) lies inside it.
\* Stated for calls that ran without undefined behaviour.
C3_PayloadInsideBlock ==
  (Quiescent /\ clean /\ Strict /\ last.op = "alloc" /\ last.ret # NULL) =>
    \E i \in 1 .. Len(BlockList.blocks) :
      LET b == BlockList.blocks[i]
      IN /\ b.busy
         /\ last.ret = b.begin + 4
         /\ last.ret + RoundUp4(last.arg) <= b.begin + b.size

\* the words of the payload [ref, ref + roundup4(n)) keep their contents
PayloadKept(l) ==
  \A a \in l.ref .. (l.ref + RoundUp4(l.n) - 1) :
    (a % 4 = 0 /\ WordOf(a) \in DOMAIN mem) => mem'[WordOf(a)] = mem[WordOf(a)]

\* C4 (frame of Mem_Alloc): a Mem_Alloc call writes no byte of the payload of
\* a reference that an earlier Mem_Alloc returned and that is still live.
\* Stated for calls that ran without undefined behaviour.
C4_AllocKeepsPayloads ==
  [][(IsCall("alloc") /\ clean /\ Strict /\ pcstate' = "run"
      /\ allocated_once = 1) =>
       \A l \in live : PayloadKept(l)]_vars

\* C5 (double free): when Mem_Free(ref) has returned 0 for a reference Mem_Alloc
\* returned and the very next call is Mem_Free(ref) again, that call returns -1
\* and leaves the memory unchanged.  Stated for clients that free live
\* references only before the repeated free, and for calls that ran without
\* undefined behaviour.
C5_DoubleFreeRejected ==
  [][(/\ clean /\ Strict /\ pcstate' = "run"
      /\ last.op = "free" /\ last.ret = 0 /\ last.arg \in given
      /\ IsCall("free") /\ last'.arg = last.arg)
     => (last'.ret = -1 /\ mem' = mem)]_vars

\* C6 (invalid free): Mem_Free of NULL, of an address outside
\* [first_block, first_block + total_mem_size) or of an address that is not a
\* multiple of 4 returns -1 and leaves the memory unchanged.  Stated for
\* calls that ran without undefined behaviour.
C6_InvalidFreeRejected ==
  [][(/\ IsCall("free") /\ allocated_once = 1
      /\ Strict /\ pcstate' = "run"
      /\ \/ last'.arg = NULL
         \/ last'.arg < first_block
         \/ last'.arg >= first_block + total_mem_size
         \/ last'.arg % 4 # 0)
     => (last'.ret = -1 /\ mem' = mem)]_vars

\* the free blocks of a block list that can hold need bytes
Fits(bl, need) == {i \in 1 .. Len(bl) : ~bl[i].busy /\ bl[i].size >= need}

\* the best fit: smallest size, lowest address among equals
BestFit(bl, need) ==
  CHOOSE i \in Fits(bl, need) :
    \A j \in Fits(bl, need) :
      bl[i].size < bl[j].size \/ (bl[i].size = bl[j].size /\ i <= j)

\* C7 (best fit): from a state whose block list partitions the region, a
\* Mem_Alloc(n) that returns a reference has carved it out of the smallest
\* free block of size >= need, the lowest one among equals; the block carved
\* is the one whose header lies header_size block_tags below the reference.
\* Stated for executions that have written nothing outside the region.
C7_BestFit ==
  [][(/\ IsCall("alloc") /\ clean /\ allocated_once = 1
      /\ Partitions(BlockList) /\ GuardClean(mem) /\ GuardClean(mem')
      /\ last'.done /\ last'.ret # NULL)
     => /\ Fits(BlockList.blocks, Need(last'.arg)) # {}
        /\ Ptr(last'.ret, -header_size)
             = BlockList.blocks[BestFit(BlockList.blocks, Need(last'.arg))].begin]_vars

\* C8 (exhaustion): from a state whose block list partitions the region,
\* Mem_Alloc(n), n > 0, returns NULL exactly when no free block has
\* size >= need, and then the memory is unchanged.  Stated for calls made
\* after calls that ran without undefined behaviour.
C8_Exhaustion ==
  [][(/\ IsCall("alloc") /\ clean /\ Strict /\ allocated_once = 1
      /\ Partitions(BlockList) /\ last'.arg > 0)
     => /\ (last'.done /\ last'.ret = NULL)
             <=> (Fits(BlockList.blocks, Need(last'.arg)) = {})
        /\ (last'.done /\ last'.ret = NULL) => mem' = mem]_vars

\* the words of the region
Region == [i \in 0 .. NWords - 1 |-> mem[i]]

\* the region holding one free block: header total_mem_size with the
\* previous-busy bit, footer total_mem_size at the last word
OneFreeBlock ==
  /\ BlockList.blocks = <<[begin |-> first_block, size |-> total_mem_size,
                           busy |-> FALSE, prev_busy |-> TRUE]>>
  /\ ~BlockList.hang
  /\ mem[NWords - 1] - (mem[NWords - 1] % 4) = total_mem_size

\* C9 (round trip): Mem_Init, then a Mem_Alloc(n) that succeeds, then Mem_Free
\* of the reference it returned: the free returns 0 and the region is again
\* one free block with its footer at the last word.  Stated for calls that
\* ran without undefined behaviour.
C9_RoundTrip ==
  (/\ nops = 3 /\ allocated_once = 1 /\ Strict /\ pcstate = "run"
   /\ last.op = "free" /\ last.arg \in given)
    => (last.ret = 0 /\ OneFreeBlock)

\* the span of the three blocks of the chain: from the header of the lowest to
\* the end of the highest, headers lying header_size block_tags below the
\* references as Mem_Free takes them to, and the blocks as far apart as their
\* references
ChainBegin == Ptr(NthRef(1), -header_size)
ChainEnd == Ptr(NthRef(3), -header_size) + (NthRef(3) - NthRef(2))

\* C10 (coalescing chain): three blocks of one size allocated from a fresh
\* region, then freed second, first, third: each Mem_Free returns 0, and in
\* the end one free block of the block list covers the span of the three.
C10_CoalescingChain ==
  /\ (nops \in {5, 6, 7} /\ last.op = "free") => (pcstate = "run" /\ last.ret = 0)
  /\ (nops = 7 /\ pcstate = "run") =>
       \E i \in 1 .. Len(BlockList.blocks) :
         LET b == BlockList.blocks[i]
         IN ~b.busy /\ b.begin <= ChainBegin /\ ChainEnd <= b.begin + b.size

\* C11 (termination): every Mem_Alloc call and every Mem_Dump traversal made
\* after a successful Mem_Init completes: its loop reaches the end of the
\* region instead of running for ever.  Stated for clients that free live
\* references only and for executions that have written nothing outside the
\* region.
C11_Termination ==
  [][(/\ IsCall("alloc") \/ IsCall("dump")
      /\ allocated_once = 1 /\ clean /\ GuardClean(mem))
     => pcstate' # "hang"]_vars

\* the arena: its start, its size and all its words
Arena == <<first_block, total_mem_size, mem>>

C13_InitResult ==
  (last.op = "init" /\ last.ret = 0) =>
    /\ total_mem_size = ((last.arg + PageSize - 1) \div PageSize) * PageSize
    /\ total_mem_size >= last.arg /\ total_mem_size < last.arg + PageSize
    /\ OneFreeBlock
    /\ mem[0] = total_mem_size + prev_block_allocated
    /\ mem[NWords - 1] = total_mem_size

\* a Mem_Init has succeeded for a size that is no multiple of the page size
C13_Witness ==
  last.op = "init" /\ last.ret = 0 /\ last.arg % PageSize # 0

\* C14 (prev_allocated mirror): between calls, the first block of the block
\* list has its previous-busy bit set and every other block's previous-busy
\* bit tells whether the block before it is busy.  Stated for clients that
\* free live references only and for calls that ran without undefined
\* behaviour.
C14_PrevAllocatedMirror ==
  (Quiescent /\ clean /\ Strict) =>
    LET bl == BlockList.blocks
    IN /\ (Len(bl) > 0 => bl[1].prev_busy)
       /\ \A i \in 2 .. Len(bl) : bl[i].prev_busy = bl[i - 1].busy

\* the word a block's footer is read from: the block's last word
FooterWord(b) == WordOf(b.begin + b.size - 4)

\* C15 (footer consistency): between calls, the last word of every free
\* block of the block list holds, flag bits aside, the size in the block's
\* header.  Stated for clients that free live references only and for calls
\* that ran without undefined behaviour.
C15_FooterConsistency ==
  (Quiescent /\ clean /\ Strict) =>
    \A i \in 1 .. Len(BlockList.blocks) :
      LET b == BlockList.blocks[i]
      IN ~b.busy =>
           /\ FooterWord(b) \in 0 .. NWords - 1
           /\ SizeOf(mem[FooterWord(b)]) = b.size

\* the smallest free block: a header and a footer
MinFreeBlock == 2 * header_size

\* the block list of the state after the step
BlockListAfter == DumpCall(mem').blocks

\* block list bl with block k turned busy and the block after it told so
TakeWhole(bl, k) ==
  [i \in 1 .. Len(bl) |->
     IF i = k THEN [bl[i] EXCEPT !.busy = TRUE]
     ELSE IF i = k + 1 THEN [bl[i] EXCEPT !.prev_busy = TRUE]
     ELSE bl[i]]

\* C16 (no split on a tight fit): from a state whose block list partitions
\* the region, a Mem_Alloc(n) whose best-fit block exceeds need by less than
\* the smallest free block returns a reference and leaves the block list as
\* it was but for that block, now busy with its size unchanged, and the
\* previous-busy bit of the block after it, now set.  Stated for clients that
\* free live references only and for calls made after calls that ran without
\* undefined behaviour.
C16_NoSplitOnTightFit ==
  [][(/\ IsCall("alloc") /\ clean /\ Strict /\ allocated_once = 1
      /\ Partitions(BlockList) /\ last'.arg > 0
      /\ Fits(BlockList.blocks, Need(last'.arg)) # {}
      /\ BlockList.blocks[BestFit(BlockList.blocks, Need(last'.arg))].size
           - Need(last'.arg) < MinFreeBlock)
     => /\ pcstate' = "run" /\ last'.ret # NULL
        /\ BlockListAfter =
             TakeWhole(BlockList.blocks,
                       BestFit(BlockList.blocks, Need(last'.arg)))]_vars

\* block list bl with block k split in two: a busy block of need bytes that
\* keeps the start and the previous-busy bit, then a free block of the rest
SplitInTwo(bl, k, need) ==
  SubSeq(bl, 1, k - 1)
  \o <<[bl[k] EXCEPT !.size = need, !.busy = TRUE],
       [begin |-> bl[k].begin + need, size |-> bl[k].size - need,
        busy |-> FALSE, prev_busy |-> TRUE]>>
  \o SubSeq(bl, k + 1, Len(bl))

\* C17 (split): from a state whose block list partitions the region, a
\* Mem_Alloc(n) whose best-fit block of size S exceeds need by at least the
\* smallest free block returns a reference and leaves the block list as it
\* was but for that block, replaced by a busy block of size need and a free
\* block of size S - need whose last word records S - need.  Stated for
\* clients that free live references only and for calls made after calls
\* that ran without undefined behaviour.
C17_Split ==
  [][(/\ IsCall("alloc") /\ clean /\ Strict /\ allocated_once = 1
      /\ Partitions(BlockList) /\ last'.arg > 0
      /\ Fits(BlockList.blocks, Need(last'.arg)) # {}
      /\ BlockList.blocks[BestFit(BlockList.blocks, Need(last'.arg))].size
           - Need(last'.arg) >= MinFreeBlock)
     => LET k == BestFit(BlockList.blocks, Need(last'.arg))
        IN /\ pcstate' = "run" /\ last'.ret # NULL
           /\ BlockListAfter = SplitInTwo(BlockList.blocks, k, Need(last'.arg))
           /\ SizeOf(mem'[FooterWord(BlockList.blocks[k])])
                = BlockList.blocks[k].size - Need(last'.arg)]_vars

\* the block of block list bl that reference ptr was returned for: the one
\* whose header lies header_size block_tags below ptr, where Mem_Free looks
BlockOf(bl, ptr) ==
  CHOOSE k \in 1 .. Len(bl) : bl[k].begin = Ptr(ptr, -header_size)

\* first and last block of the run of blocks that freeing block k merges
MergeLo(bl, k) == IF k > 1 /\ ~bl[k - 1].busy THEN k - 1 ELSE k
MergeHi(bl, k) == IF k < Len(bl) /\ ~bl[k + 1].busy THEN k + 1 ELSE k

\* sum of the sizes of blocks lo .. hi
RECURSIVE SumSizes(_, _, _)
SumSizes(bl, lo, hi) ==
  IF lo > hi THEN 0 ELSE bl[lo].size + SumSizes(bl, lo + 1, hi)

\* block list bl after block k is freed and merged with its free neighbours
Merged(bl, k) ==
  SubSeq(bl, 1, MergeLo(bl, k) - 1)
  \o <<[begin |-> bl[MergeLo(bl, k)].begin,
        size |-> SumSizes(bl, MergeLo(bl, k), MergeHi(bl, k)),
        busy |-> FALSE, prev_busy |-> bl[MergeLo(bl, k)].prev_busy]>>
  \o [i \in 1 .. Len(bl) - MergeHi(bl, k) |->
       IF i = 1 THEN [bl[MergeHi(bl, k) + 1] EXCEPT !.prev_busy = FALSE]
       ELSE bl[MergeHi(bl, k) + i]]

\* C18 (coalescing cases): from a state whose block list partitions the
\* region, a Mem_Free that returns 0 for the live reference of a busy block X
\* leaves the block list as it was but for one free block in the place of X
\* and of its free neighbours, its size the sum of theirs, and the cleared
\* previous-busy bit of the block after it.  Stated for clients that free
\* live references only and for calls that ran without undefined behaviour.
C18_CoalescingCases ==
  [][(/\ IsCall("free") /\ clean /\ Strict /\ allocated_once = 1
      /\ Partitions(BlockList)
      /\ \E l \in live : l.ref = last'.arg
      /\ \E k \in 1 .. Len(BlockList.blocks) :
           /\ BlockList.blocks[k].begin = Ptr(last'.arg, -header_size)
           /\ BlockList.blocks[k].busy
      /\ pcstate' = "run" /\ last'.ret = 0)
     => BlockListAfter =
          Merged(BlockList.blocks, BlockOf(BlockList.blocks, last'.arg))]_vars

\* the addresses at which the loop of Mem_Alloc (lines 105-123) reads a
\* size_status, in order; g is the frame after the read at f.current
RECURSIVE ScanTrail(_, _)
ScanTrailStep(f, g, trail) ==
  IF g.dead THEN trail
  ELSE ScanTrail(ScanBody(g), Append(trail, f.current))

ScanTrail(f, trail) ==
  IF ~(f.current < first_block + total_mem_size) THEN trail
  ELSE IF \E i \in 1 .. Len(trail) : trail[i] = f.current THEN trail
  ELSE ScanTrailStep(f, Rd(f, f.current), trail)

\* the block starts Mem_Dump prints, in order
DumpTrail == [i \in 1 .. Len(BlockList.blocks) |-> BlockList.blocks[i].begin]

\* C19 (traversal agreement): between calls, the scan of Mem_Alloc visits
\* the block starts that Mem_Dump visits, in the same order.  Stated for
\* clients that free live references only, for calls that ran without
\* undefined behaviour and for block lists that partition the region.
C19_TraversalAgreement ==
  (Quiescent /\ clean /\ Strict /\ Partitions(BlockList)) =>
    ScanTrail(AllocFrame(mem, 2 * header_size), <<>>) = DumpTrail

\* C20 (in-bounds access): a Mem_Alloc or Mem_Free call made after a
\* successful Mem_Init accesses no word outside the region.  Stated for
\* clients that free live references only, and on a platform where the
\* memory around the region is mapped: there a write outside the region
\* shows in the word it changes, and the process is killed only by an access
\* more than Guard words away from the region.
C20_InBoundsAccess ==
  [][(/\ IsCall("alloc") \/ IsCall("free")
      /\ allocated_once = 1 /\ clean' /\ ~Strict /\ GuardClean(mem))
     => (pcstate' # "fault" /\ GuardClean(mem'))]_vars
====
